---- MODULE Spec2Model ----
(***************************************************************************)
(* Model of the rvfs dispatcher (src/src/rfs.rs, src/src/fuse.rs): the     *)
(* inode list, the per-inode shared descriptor, the file handles handed    *)
(* to the kernel, and the origin directory tree the dispatcher works on.   *)
(***************************************************************************)
EXTENDS Integers, Sequences, FiniteSets, Bags, TLC

(* ------------------------------ bounds --------------------------------- *)

\* largest number of entries the inode list may hold
MaxInodes == 5

\* largest number of file handles the kernel holds at one time
MaxHandles == 2

\* largest length of an origin file
MaxLen == 1

\* deepest path below the mount root
MaxDepth == 2

\* longest sequence of callbacks after init
MaxSteps == 5

\* longest sequence of callbacks before two writes are sent together
MaxSetup == 2

\* largest offset of a write sent together with another
MaxOffset == 1

\* longest sequence of mkdir calls before two requests are sent to the
\* session that is served fairly
MaxLive == 1

\* the callbacks of one run of the setattr specification
MaxAttrSteps == 3

\* longest origin file, and the callbacks of one run, of the specification
\* of writes of several lengths
MaxEnd == 2

MaxSizeSteps == 4

\* the callbacks of one run of the specification of the callbacks that only
\* read the list
MaxReadSteps == 3

\* the callbacks of one run of the specification of create, open and release
MaxHandleSteps == 4

Names == {"a", "b"}

Bytes == {1, 2}

Modes == {420}

AccModes == {"O_RDONLY", "O_WRONLY", "O_RDWR", "O_ACCMODE"}

(* ------------------------------ paths ---------------------------------- *)

\* Rfs.proxy_mount and Rfs.origin_mount, as component sequences
ProxyRoot == <<"proxy">>

OriginRoot == <<"origin">>

None == "none"

IsPrefix(base, p) ==
  /\ Len(base) <= Len(p)
  /\ SubSeq(p, 1, Len(base)) = base

\* Path::join with a relative single-component name
Join(p, name) == Append(p, name)

\* Path::parent
Parent(p) == SubSeq(p, 1, Len(p) - 1)

\* Path::file_name: None when the path is empty or ends in "." or ".."
FileName(p) ==
  IF p = <<>> \/ p[Len(p)] \in {".", ".."} THEN None ELSE p[Len(p)]

\* the name find_by_name and readdir compare: file_name().unwrap_or("..")
BaseName(p) == IF FileName(p) = None THEN ".." ELSE FileName(p)

\* Path::strip_prefix(base).unwrap(): defined only when base is a prefix
CanStrip(p, base) == IsPrefix(base, p)

StripPrefix(p, base) == SubSeq(p, Len(base) + 1, Len(p))

proxy_path_to_origin_path(item) == OriginRoot \o StripPrefix(item, ProxyRoot)

origin_path_to_proxy_path(item) == ProxyRoot \o StripPrefix(item, OriginRoot)

(* --------------------------- the origin tree --------------------------- *)
(* host: path |-> [kind, data, verdict].  A path that starts with "#" is a *)
(* file that was unlinked or replaced while a descriptor was open on it.   *)

HostDir == [kind |-> "dir", data |-> <<>>, verdict |-> "clean"]

HostFile(d, v) == [kind |-> "file", data |-> d, verdict |-> v]

Restrict(f, S) == [x \in S |-> f[x]]

Exists(h, p) == p \in DOMAIN h

IsDirAt(h, p) == Exists(h, p) /\ h[p].kind = "dir"

Attached(p) == IsPrefix(OriginRoot, p)

\* the entries directly inside directory p
Entries(h, p) == {q \in DOMAIN h : Len(q) = Len(p) + 1 /\ IsPrefix(p, q)}

\* p and everything below it
Subtree(h, p) == {q \in DOMAIN h : IsPrefix(p, q)}

\* error of resolving the directory part of p, "OK" when it is a directory
ParentErr(h, p) ==
  IF p = <<>> \/ ~Exists(h, Parent(p)) THEN "ENOENT"
  ELSE IF ~IsDirAt(h, Parent(p)) THEN "ENOTDIR"
  ELSE "OK"

\* File::create: O_WRONLY|O_CREAT|O_TRUNC
FileCreateErr(h, p) ==
  IF ParentErr(h, p) # "OK" THEN ParentErr(h, p)
  ELSE IF IsDirAt(h, p) THEN "EISDIR"
  ELSE "OK"

FileCreate(h, p) ==
  [q \in DOMAIN h \cup {p} |-> IF q = p THEN HostFile(<<>>, "clean") ELSE h[q]]

\* fs::create_dir
CreateDirErr(h, p) ==
  IF ParentErr(h, p) # "OK" THEN ParentErr(h, p)
  ELSE IF Exists(h, p) THEN "EEXIST"
  ELSE "OK"

CreateDir(h, p) ==
  [q \in DOMAIN h \cup {p} |-> IF q = p THEN HostDir ELSE h[q]]

\* the n-th name for a file that has no path any more
RECURSIVE Hash(_)
Hash(n) == IF n = 0 THEN <<>> ELSE <<"#">> \o Hash(n - 1)

FreshHash(h) ==
  Hash(CHOOSE n \in 1..(Cardinality(DOMAIN h) + 1) :
         /\ Hash(n) \notin DOMAIN h
         /\ \A m \in 1..(n - 1) : Hash(m) \in DOMAIN h)

\* where the descriptors opened on the paths of S point once S has lost its
\* names: each path of S gets a name of its own
RECURSIVE DetachMap(_, _)
DetachMap(h, S) ==
  IF S = {} THEN [q \in {} |-> <<>>]
  ELSE LET p == CHOOSE q \in S : TRUE
           k == FreshHash(h)
           rest == DetachMap([q \in DOMAIN h \cup {k} |-> IF q = k THEN h[p] ELSE h[q]],
                             S \ {p})
       IN [q \in DOMAIN rest \cup {p} |-> IF q = p THEN k ELSE rest[q]]

\* remove the names of S from the tree; the files stay reachable through
\* the names DetachMap gives them
Detach(h, S) ==
  LET m == DetachMap(h, S)
      keep == DOMAIN h \ S
  IN [q \in keep \cup {m[p] : p \in S} |->
        IF q \in keep THEN h[q] ELSE h[CHOOSE p \in S : m[p] = q]]

\* fs::remove_file
RemoveFileErr(h, p) ==
  IF ParentErr(h, p) # "OK" THEN ParentErr(h, p)
  ELSE IF ~Exists(h, p) THEN "ENOENT"
  ELSE IF IsDirAt(h, p) THEN "EISDIR"
  ELSE "OK"

\* fs::remove_dir_all
RemoveDirAllErr(h, p) ==
  IF ParentErr(h, p) # "OK" THEN ParentErr(h, p)
  ELSE IF ~Exists(h, p) THEN "ENOENT"
  ELSE IF ~IsDirAt(h, p) THEN "ENOTDIR"
  ELSE "OK"

\* fs::rename(src, dst)
RenameErr(h, src, dst) ==
  IF ParentErr(h, src) # "OK" THEN ParentErr(h, src)
  ELSE IF ~Exists(h, src) THEN "ENOENT"
  ELSE IF ParentErr(h, dst) # "OK" THEN ParentErr(h, dst)
  ELSE IF src = dst THEN "OK"
  ELSE IF IsPrefix(src, dst) THEN "EINVAL"
  ELSE IF ~Exists(h, dst) THEN "OK"
  ELSE IF IsDirAt(h, src) /\ ~IsDirAt(h, dst) THEN "ENOTDIR"
  ELSE IF ~IsDirAt(h, src) /\ IsDirAt(h, dst) THEN "EISDIR"
  ELSE IF IsDirAt(h, dst) /\ Entries(h, dst) # {} THEN "ENOTEMPTY"
  ELSE "OK"

\* the path q has after src was renamed to dst
Moved(q, src, dst) ==
  IF IsPrefix(src, q) THEN dst \o StripPrefix(q, src) ELSE q

(* ------------------------------ state ---------------------------------- *)

VARIABLES
  list,      \* InodeList.list: id |-> Inode
  host,      \* the origin tree the dispatcher does its I/O on
  reply,     \* the reply of the last callback
  handles,   \* the file handles the kernel holds: a bag of [ino, fh, stale]
  hi,        \* the highest id insert has handed out so far
  ins,       \* what the last callback was asked and what its inserts did
  steps,     \* the number of callbacks since init
  calls,     \* the two write requests the kernel sent together: <<>> when none
  base,      \* the list and the origin when the two requests were sent
  pos,       \* the file offset of the descriptor the two requests write through
  busy       \* the request the session has dispatched and not yet replied to: 0 when none

vars == <<list, host, reply, handles, hi, ins, steps, calls, base, pos, busy>>

Ids == 1..MaxInodes

\* the inode numbers the kernel sends: it resolves "." and ".." itself and
\* never learns the ids 2 and 3 of the two placeholders
KernelIds == Ids \ {2, 3}

\* Inode.open_handles: Option<OpenedHandlers>; the descriptor is given by its
\* access mode and the origin file it is open on
NoOpen == [some |-> FALSE, rd |-> FALSE, wr |-> FALSE, path |-> <<>>, count |-> 0]

Opened(rd, wr, path) == [some |-> TRUE, rd |-> rd, wr |-> wr, path |-> path, count |-> 1]

\* FileAttrBuilder::build, with the fields the dispatcher reads; a timestamp
\* the builder was not given is SystemTime::now(), and every value now()
\* returns is the one time "now"
Attr(kind, perm, size) ==
  [ino |-> 0, kind |-> kind, perm |-> perm, size |-> size,
   atime |-> "now", mtime |-> "now", ctime |-> "now", crtime |-> "now"]

\* the timestamps of an origin entry, as Rfs::stat reads them
HostTimes(attr) ==
  [attr EXCEPT !.atime = "host", !.mtime = "host", !.ctime = "host", !.crtime = "host"]

InodeNew(path, origin_path, parent_id, attr) ==
  [proxy_path |-> path, origin_path |-> origin_path, parent_id |-> parent_id,
   attr |-> attr, open_handles |-> NoOpen]

\* InodeList::insert: the id is the number of entries plus one, and the map
\* insert overwrites an entry that has this id
InsertId(l) == Cardinality(DOMAIN l) + 1

\* InodeList::insert without attr.with_ino(id)
InsertNoIno(l, path, origin_path, parent_id, attr) ==
  LET id == InsertId(l)
  IN [i \in DOMAIN l \cup {id} |->
        IF i = id THEN InodeNew(path, origin_path, parent_id, attr) ELSE l[i]]

Insert(l, path, origin_path, parent_id, attr) ==
  LET id == InsertId(l)
  IN [i \in DOMAIN l \cup {id} |->
        IF i = id THEN InodeNew(path, origin_path, parent_id, [attr EXCEPT !.ino = id])
        ELSE l[i]]

\* Rfs::stat: attributes of an origin entry (the mode carries the type bits)
Stat(h, p) ==
  IF h[p].kind = "dir" THEN HostTimes(Attr("dir", 16384 + 493, 0))
  ELSE HostTimes(Attr("file", 32768 + 420, Len(h[p].data)))

StatErr(h, p) == IF Exists(h, p) THEN "OK" ELSE IF ParentErr(h, p) # "OK" THEN ParentErr(h, p) ELSE "ENOENT"

\* InodeListReadView::find_by_name: the entries the search may stop at
find_by_name(l, parent, name) ==
  {i \in DOMAIN l : l[i].parent_id = parent /\ BaseName(l[i].proxy_path) = name}

\* InodeListReadView::find_by_id
find_by_id(l, inode) == {i \in DOMAIN l : i = inode}

(* the kernel's handles *)

\* a handle fh that open/create returned for inode ino; stale once that
\* inode has left the list
Handle(ino, fh) == [ino |-> ino, fh |-> fh, stale |-> FALSE]

Count(B, x) == IF x \in DOMAIN B THEN B[x] ELSE 0

\* the handles of inode id lose their inode
MarkStale(B, id) ==
  LET f(x) == IF x.ino = id THEN [x EXCEPT !.stale = TRUE] ELSE x
      dom == {f(x) : x \in DOMAIN B}
  IN [y \in dom |->
        IF y.ino = id THEN Count(B, y) + Count(B, [y EXCEPT !.stale = FALSE])
        ELSE B[y]]

MarkStaleAll(B, S) ==
  LET f(x) == IF x.ino \in S THEN [x EXCEPT !.stale = TRUE] ELSE x
      dom == {f(x) : x \in DOMAIN B}
  IN [y \in dom |->
        IF y.ino \in S THEN Count(B, y) + Count(B, [y EXCEPT !.stale = FALSE])
        ELSE B[y]]

\* reused: an insert handed out an id that had been handed out before;
\* replaced: an insert overwrote an inode of the list
\* parent, name: the arguments of a create or mkdir that succeeded, and of an
\* unlink or rmdir that went on to Rfs::remove;
\* kids: the directory an rmdir resolved had a child in the list;
\* newparent, newname, id: the destination of a rename that succeeded (parent
\* and name are its source) and the id of the inode it moved;
\* before: the graph before a rename that succeeded on a destination with
\* no inode in the list;
\* nobit: a read or write was called on an inode of the list with a handle
\* that lacks the access bit the callback checks;
\* noslot: a read or write was called on an inode of the list whose open slot
\* is none, with a handle that has the access bit the callback checks;
\* hadslot: an open with a valid access mode was called on an inode of the
\* list whose open slot was present;
\* sized: for a read at an offset that is not negative, with a handle that
\* has the read bit, on an inode whose descriptor is open for reading, the
\* bytes from the offset up to attr.size, at most the size asked for; -1 for
\* every other callback
NoIns == [reused |-> FALSE, replaced |-> FALSE, parent |-> 0, name |-> "", nobit |-> FALSE,
          noslot |-> FALSE, hadslot |-> FALSE, sized |-> -1, kids |-> FALSE, newparent |-> 0, newname |-> "", id |-> 0, before |-> <<>>]

\* the graph: each inode's parent and paths, by id
Graph(l) ==
  [i \in DOMAIN l |-> [parent_id |-> l[i].parent_id, proxy_path |-> l[i].proxy_path,
                       origin_path |-> l[i].origin_path]]

Max(a, b) == IF a >= b THEN a ELSE b

\* the files without a name that no descriptor is open on are gone
Gc(l, h) ==
  Restrict(h, {q \in DOMAIN h :
                 Attached(q) \/ \E i \in DOMAIN l : l[i].open_handles.some /\ l[i].open_handles.path = q})

\* descriptors follow their file when its name changes
Refd(l, m) ==
  [i \in DOMAIN l |->
     IF l[i].open_handles.some /\ l[i].open_handles.path \in DOMAIN m
     THEN [l[i] EXCEPT !.open_handles.path = m[@]]
     ELSE l[i]]

NoAttr == Attr("none", 0, 0)

\* what a callback hands to its reply object: the error or OK, and the
\* attributes, handle and bytes of a successful reply
OkReply(op) == [op |-> op, err |-> "OK", attr |-> NoAttr, fh |-> 0, data |-> <<>>, written |-> 0]

ErrReply(op, err) == [op |-> op, err |-> err, attr |-> NoAttr, fh |-> 0, data |-> <<>>, written |-> 0]

\* a callback runs: a callback that panicked has ended the session
Running ==
  /\ reply.err # "PANIC"
  /\ steps < MaxSteps
  /\ steps' = steps + 1
  /\ UNCHANGED <<calls, base, pos, busy>>

(* ------------------------------ init ----------------------------------- *)

EmptyHost == [p \in {OriginRoot} |-> HostDir]

\* the origin trees init may find: entries of the root, ingested or not
InitHost(ea, eb) ==
  [p \in {OriginRoot, Join(OriginRoot, "a"), Join(OriginRoot, "b")} |->
     IF p = OriginRoot THEN HostDir ELSE IF p = Join(OriginRoot, "a") THEN ea ELSE eb]

InitHosts ==
  {EmptyHost,
   InitHost(HostFile(<<>>, "clean"), HostFile(<<>>, "infected")),
   InitHost(HostDir, HostFile(<<>>, "whitelisted"))}

\* Rfs::init: the root, then "." and ".." under it
RfsInit(h) ==
  LET attr == Stat(h, OriginRoot)
      l0 == [i \in {} |-> 0]
      l1 == Insert(l0, ProxyRoot, OriginRoot, 0, attr)
      l2 == Insert(l1, <<".">>, OriginRoot, 1, attr)
  IN Insert(l2, <<"..">>, Parent(ProxyRoot), 1, attr)

Init ==
  /\ host \in InitHosts
  /\ list = RfsInit(host)
  /\ reply = OkReply("init")
  /\ handles = EmptyBag
  /\ hi = 3
  /\ ins = NoIns
  /\ steps = 0
  /\ calls = <<>>
  /\ base = [list |-> <<>>, host |-> <<>>]
  /\ pos = 0
  /\ busy = 0

(* --------------------------- Rfs::create ------------------------------- *)

Depth(p) == Len(p) - Len(OriginRoot)

RfsCreateErr(l, h, name, parent_ino, kind) ==
  IF find_by_name(l, parent_ino, name) # {} THEN "EEXIST"
  ELSE IF find_by_id(l, parent_ino) = {} THEN "ENOENT"
  ELSE IF kind = "file" THEN FileCreateErr(h, Join(l[parent_ino].origin_path, name))
  ELSE CreateDirErr(h, Join(l[parent_ino].origin_path, name))

RfsCreateHost(l, h, name, parent_ino, kind) ==
  IF kind = "file" THEN FileCreate(h, Join(l[parent_ino].origin_path, name))
  ELSE CreateDir(h, Join(l[parent_ino].origin_path, name))

\* mode as u16
Perm(mode) == mode % 65536

\* Rfs::create linking the new inode to the parent's parent
RfsCreateListGrandparent(l, name, parent_ino, mode, kind) ==
  Insert(l, Join(l[parent_ino].proxy_path, name), Join(l[parent_ino].origin_path, name),
         l[parent_ino].parent_id, Attr(kind, Perm(mode), 0))

RfsCreateList(l, name, parent_ino, mode, kind) ==
  Insert(l, Join(l[parent_ino].proxy_path, name), Join(l[parent_ino].origin_path, name),
         parent_ino, Attr(kind, Perm(mode), 0))

(* -------------------------- Rfs::allocate_fh --------------------------- *)

\* File::options().read(read).write(write).open(path)
OpenErr(h, p, read, write) ==
  IF ~Exists(h, p) THEN StatErr(h, p)
  ELSE IF IsDirAt(h, p) /\ write THEN "EISDIR"
  ELSE "OK"

AllocateFhErr(l, h, inode, read, write) ==
  IF find_by_id(l, inode) = {} THEN "ENOENT"
  ELSE IF l[inode].open_handles.some THEN "OK"
  ELSE OpenErr(h, l[inode].origin_path, read, write)

\* Rfs::allocate_fh opening the origin file again, with the access mode of
\* the new handle, when the open slot is present
AllocateFhListReopen(l, inode, read, write) ==
  [l EXCEPT ![inode].open_handles =
     IF @.some THEN [@ EXCEPT !.count = @ + 1, !.rd = read, !.wr = write]
     ELSE Opened(read, write, l[inode].origin_path)]

AllocateFhList(l, inode, read, write) ==
  [l EXCEPT ![inode].open_handles =
     IF @.some THEN [@ EXCEPT !.count = @ + 1]
     ELSE Opened(read, write, l[inode].origin_path)]

Bit(b) == IF b THEN 1 ELSE 0

\* Rfs::allocate_fh with the two access bits in each other's place
EncodeFhSwapped(count, read, write) == count * 4 + 2 * Bit(read) + Bit(write)

\* (count << 2) | u64::from(read) | (u64::from(write) << 1)
EncodeFh(count, read, write) == count * 4 + Bit(read) + 2 * Bit(write)

fn_check_access_read(fh) == fh % 2 # 0

fn_check_access_write(fh) == (fh \div 2) % 2 # 0

AccRead(acc) == acc \in {"O_RDONLY", "O_RDWR"}

AccWrite(acc) == acc \in {"O_WRONLY", "O_RDWR"}

(* ---------------------- Rfs::insert_item, add_folder ------------------- *)

\* the inode list together with the bookkeeping of what insert did
World(l, hs, top) == [list |-> l, handles |-> hs, hi |-> top, ins |-> NoIns, err |-> "OK"]

\* ClamAV::scan, an opaque verdict on the entry
Scan(h, item) == h[item].verdict

\* Rfs::insert_item: the scan decides, nothing else is looked at
InsertItemErr(h, item) ==
  IF ~CanStrip(item, OriginRoot) THEN "PANIC"
  ELSE IF Scan(h, item) = "infected" THEN "EPERM"
  ELSE StatErr(h, item)

InsertItem(w, h, item, parent_ino) ==
  LET id == InsertId(w.list)
      err == InsertItemErr(h, item)
  IN IF err # "OK" THEN [w EXCEPT !.err = err]
     ELSE [list |-> Insert(w.list, origin_path_to_proxy_path(item), item, parent_ino, Stat(h, item)),
           handles |-> IF id \in DOMAIN w.list THEN MarkStale(w.handles, id) ELSE w.handles,
           hi |-> Max(w.hi, id),
           ins |-> [w.ins EXCEPT !.reused = (@ \/ id <= w.hi),
                                 !.replaced = (@ \/ id \in DOMAIN w.list)],
           err |-> "OK"]

\* Rfs::add_folder over the entries read_dir yields, in the order it yields
\* them: an infected entry is skipped, any other error ends the loop
RECURSIVE AddFolder(_, _, _, _)
AddFolder(w, h, items, ino) ==
  IF items = <<>> THEN w
  ELSE LET w2 == InsertItem(w, h, Head(items), ino)
       IN IF w2.err = "EPERM" THEN AddFolder(w, h, Tail(items), ino)
          ELSE IF w2.err # "OK" THEN w2
          ELSE AddFolder(w2, h, Tail(items), ino)

\* read_dir
ReadDirErr(h, folder) ==
  IF ~Exists(h, folder) THEN StatErr(h, folder)
  ELSE IF ~IsDirAt(h, folder) THEN "ENOTDIR"
  ELSE "OK"

\* the orders in which read_dir may yield the entries of S
Orders(S) == {o \in [1..Cardinality(S) -> S] : {o[k] : k \in DOMAIN o} = S}

(* ------------------------ Rfs::remove, Rfs::rename --------------------- *)

OpenOn(l, p) == \E i \in DOMAIN l : l[i].open_handles.some /\ l[i].open_handles.path = p

\* the origin loses the names S; a file of S that a descriptor is open on
\* lives on without a name
HostRemove(l, h, S) ==
  LET ref == {p \in S : OpenOn(l, p)}
      m == DetachMap(h, ref)
      h2 == Detach(h, ref)
  IN [list |-> Refd(l, m), host |-> Restrict(h2, DOMAIN h2 \ S)]

\* the origin after fs::rename(src, dst) succeeded: dst is replaced, and src
\* with all below it is found under dst
HostRename(l, h, src, dst) ==
  IF src = dst THEN [list |-> l, host |-> h]
  ELSE LET r == HostRemove(l, h, Subtree(h, dst))
           mv == [q \in Subtree(r.host, src) |-> Moved(q, src, dst)]
           dom == {Moved(q, src, dst) : q \in DOMAIN r.host}
       IN [list |-> Refd(r.list, mv),
           host |-> [q \in dom |-> r.host[CHOOSE q0 \in DOMAIN r.host : Moved(q0, src, dst) = q]]]

\* Rfs::remove with the predicate of retain inverted: a directory takes the
\* inodes that are not its children out of the list
RemovedInverted(l, id) ==
  IF l[id].attr.kind = "dir"
  THEN {id} \cup {j \in DOMAIN l : l[j].parent_id # l[id].attr.ino}
  ELSE {id}

\* the ids Rfs::remove takes out of the list: the inode, and for a directory
\* the inodes whose parent_id is its ino
Removed(l, id) ==
  IF l[id].attr.kind = "dir"
  THEN {id} \cup {j \in DOMAIN l : l[j].parent_id = l[id].attr.ino}
  ELSE {id}

RemoveErr(l, h, id) ==
  IF id \notin DOMAIN l THEN "ENOENT"
  ELSE IF l[id].attr.kind = "file" THEN RemoveFileErr(h, l[id].origin_path)
  ELSE IF l[id].attr.kind = "dir" THEN RemoveDirAllErr(h, l[id].origin_path)
  ELSE "ENOSYS"

\* the list and the origin after Rfs::remove(id), for id in the list; the
\* inodes leave the list before the origin is touched, whether or not the
\* origin call succeeds
Remove(l, h, id) ==
  LET l2 == Restrict(l, DOMAIN l \ Removed(l, id))
  IN IF RemoveErr(l, h, id) # "OK" THEN [list |-> l2, host |-> h]
     ELSE HostRemove(l2, h, Subtree(h, l[id].origin_path))

RfsRenameErr(l, h, parent, name, newparent, newname, i) ==
  IF ~CanStrip(Join(l[newparent].proxy_path, newname), ProxyRoot) THEN "PANIC"
  ELSE RenameErr(h, l[i].origin_path,
                 proxy_path_to_origin_path(Join(l[newparent].proxy_path, newname)))

\* Rfs::rename that leaves the moved inode's origin_path as it was
RfsRenameKeepOrigin(l, h, newparent, newname, i) ==
  LET new_path == Join(l[newparent].proxy_path, newname)
      new == proxy_path_to_origin_path(new_path)
      r == HostRename(l, h, l[i].origin_path, new)
  IN [list |-> [r.list EXCEPT ![i].parent_id = newparent,
                              ![i].proxy_path = new_path],
      host |-> r.host]

\* Rfs::rename once inode i was found under (parent, name) and the origin
\* rename succeeded
RfsRename(l, h, newparent, newname, i) ==
  LET new_path == Join(l[newparent].proxy_path, newname)
      new == proxy_path_to_origin_path(new_path)
      r == HostRename(l, h, l[i].origin_path, new)
  IN [list |-> [r.list EXCEPT ![i].parent_id = newparent,
                              ![i].proxy_path = new_path,
                              ![i].origin_path = new],
      host |-> r.host]

(* --------------------------- Rfs::open_file ---------------------------- *)

\* Rfs::open_file(node, fh, read, write): the access bits of fh are checked
\* first, then the open slot
\* Rfs::open_file looking at the open slot before the access bits
open_file_slot_first(node, fh, read, write) ==
  IF ~node.open_handles.some THEN "EBADF"
  ELSE IF read /\ ~fn_check_access_read(fh) THEN "EPERM"
  ELSE IF write /\ ~fn_check_access_write(fh) THEN "EPERM"
  ELSE "OK"

\* Rfs::open_file replying no_such_entry for an open slot that is none
open_file_slot_enoent(node, fh, read, write) ==
  IF read /\ ~fn_check_access_read(fh) THEN "EPERM"
  ELSE IF write /\ ~fn_check_access_write(fh) THEN "EPERM"
  ELSE IF ~node.open_handles.some THEN "ENOENT"
  ELSE "OK"

open_file(node, fh, read, write) ==
  IF read /\ ~fn_check_access_read(fh) THEN "EPERM"
  ELSE IF write /\ ~fn_check_access_write(fh) THEN "EPERM"
  ELSE IF ~node.open_handles.some THEN "EBADF"
  ELSE "OK"

Min(a, b) == IF a <= b THEN a ELSE b

\* the bytes of old with data written at offset (offset is at most Len(old))
Overwrite(old, offset, data) ==
  [k \in 1..Max(Len(old), offset + Len(data)) |->
     IF k > offset /\ k <= offset + Len(data) THEN data[k - offset] ELSE old[k]]

\* Filesystem::read, as the reply it gives in a state
ReadReply(l, h, ino, fh, offset, size) ==
  IF find_by_id(l, ino) = {} THEN ErrReply("read", "ENOENT")
  ELSE IF open_file(l[ino], fh, TRUE, FALSE) # "OK"
  THEN ErrReply("read", open_file(l[ino], fh, TRUE, FALSE))
  ELSE IF offset < 0 THEN ErrReply("read", "PANIC")
  ELSE LET fd == l[ino].open_handles
           len == Len(h[fd.path].data)
           amount == Min(Max(len - offset, 0), size)
       IN IF amount = 0 THEN OkReply("read")
          ELSE IF ~fd.rd THEN ErrReply("read", "EBADF")
          ELSE [OkReply("read") EXCEPT !.data = SubSeq(h[fd.path].data, offset + 1, offset + amount)]

\* Filesystem::write up to the reply it gives when it does not write
WriteErr(l, h, ino, fh, offset) ==
  IF find_by_id(l, ino) = {} THEN "ENOENT"
  ELSE IF open_file(l[ino], fh, FALSE, TRUE) # "OK" THEN open_file(l[ino], fh, FALSE, TRUE)
  ELSE IF offset > Len(h[l[ino].open_handles.path].data) THEN "EINVAL"
  ELSE IF offset < 0 THEN "EINVAL"
  ELSE IF ~l[ino].open_handles.wr THEN "EBADF"
  ELSE "OK"

\* Filesystem::write setting attr.size to the end of the write
WriteAttrAssign(attr, offset, n) ==
  [attr EXCEPT !.size = n + offset, !.ctime = "now", !.mtime = "now"]

\* the inode's attributes after a write of n bytes at offset
WriteAttr(attr, offset, n) ==
  [attr EXCEPT !.size = IF n + offset > @ THEN n + offset ELSE @,
               !.ctime = "now", !.mtime = "now"]

\* LookupSet: the attributes Filesystem::lookup may reply with
LookupSet(l, parent, name) == {l[i].attr : i \in find_by_name(l, parent, name)}

\* the handle values of the model
Fhs == {EncodeFh(c, r, w) : c \in 1..MaxHandles, r \in BOOLEAN, w \in BOOLEAN}

\* the handle values the kernel sends in a state: the ones it holds, and
\* one made-up value for each combination of the access bits
FhInputs(hs) == {x.fh : x \in DOMAIN hs} \cup {EncodeFh(1, r, w) : r \in BOOLEAN, w \in BOOLEAN}

Datas == UNION {[1..n -> Bytes] : n \in 1..MaxLen}

(* ------------------------- Filesystem callbacks ------------------------ *)

\* Filesystem::mkdir
Mkdir(parent, name, mode) ==
  /\ Running
  /\ InsertId(list) <= MaxInodes
  /\ parent \in DOMAIN list => Depth(list[parent].origin_path) < MaxDepth
  /\ LET err == RfsCreateErr(list, host, name, parent, "dir")
     IN IF err # "OK"
        THEN /\ reply' = ErrReply("mkdir", err)
             /\ UNCHANGED <<list, host, handles, hi>>
             /\ ins' = NoIns
        ELSE LET id == InsertId(list)
                 l2 == RfsCreateList(list, name, parent, mode, "dir")
             IN /\ list' = l2
                /\ host' = Gc(l2, RfsCreateHost(list, host, name, parent, "dir"))
                /\ reply' = [OkReply("mkdir") EXCEPT !.attr = l2[id].attr]
                /\ handles' = IF id \in DOMAIN list THEN MarkStale(handles, id) ELSE handles
                /\ hi' = Max(hi, id)
                /\ ins' = [NoIns EXCEPT !.reused = id <= hi, !.replaced = id \in DOMAIN list,
                                     !.parent = parent, !.name = name]

\* Filesystem::create
Create(parent, name, mode, acc) ==
  /\ Running
  /\ InsertId(list) <= MaxInodes
  /\ BagCardinality(handles) < MaxHandles
  /\ parent \in DOMAIN list => Depth(list[parent].origin_path) < MaxDepth
  /\ IF acc = "O_ACCMODE"
     THEN /\ reply' = ErrReply("create", "EINVAL")
          /\ UNCHANGED <<list, host, handles, hi>>
             /\ ins' = NoIns
     ELSE LET err == RfsCreateErr(list, host, name, parent, "file")
          IN IF err # "OK"
             THEN /\ reply' = ErrReply("create", err)
                  /\ UNCHANGED <<list, host, handles, hi>>
             /\ ins' = NoIns
             ELSE LET id == InsertId(list)
                      l2 == RfsCreateList(list, name, parent, mode, "file")
                      h2 == Gc(l2, RfsCreateHost(list, host, name, parent, "file"))
                      ino == l2[id].attr.ino
                      aerr == AllocateFhErr(l2, h2, ino, AccRead(acc), AccWrite(acc))
                      l3 == AllocateFhList(l2, ino, AccRead(acc), AccWrite(acc))
                      fh == EncodeFh(l3[ino].open_handles.count, AccRead(acc), AccWrite(acc))
                      hs == IF id \in DOMAIN list THEN MarkStale(handles, id) ELSE handles
                  IN /\ host' = h2
                     /\ hi' = Max(hi, id)
                     /\ ins' = [NoIns EXCEPT !.reused = id <= hi, !.replaced = id \in DOMAIN list,
                                     !.parent = parent, !.name = name]
                     /\ IF aerr # "OK"
                        THEN /\ list' = l2
                             /\ handles' = hs
                             /\ reply' = ErrReply("create", "PANIC")
                        ELSE /\ list' = l3
                             /\ handles' = hs (+) SetToBag({Handle(ino, fh)})
                             /\ reply' = [OkReply("create") EXCEPT !.attr = l2[id].attr, !.fh = fh]

\* Filesystem::opendir; add_folder runs on the origin directory of the inode
Opendir(ino) ==
  /\ Running
  /\ IF find_by_id(list, ino) = {}
     THEN /\ reply' = ErrReply("opendir", "ENOENT")
          /\ UNCHANGED <<list, host, handles, hi>>
             /\ ins' = NoIns
     ELSE IF ReadDirErr(host, list[ino].origin_path) # "OK"
     THEN /\ reply' = ErrReply("opendir", "PANIC")
          /\ UNCHANGED <<list, host, handles, hi>>
             /\ ins' = NoIns
     ELSE \E items \in Orders(Entries(host, list[ino].origin_path)) :
            LET w == AddFolder(World(list, handles, hi), host, items, ino)
            IN /\ DOMAIN w.list \subseteq Ids
               /\ list' = w.list
               /\ host' = Gc(w.list, host)
               /\ handles' = w.handles
               /\ hi' = w.hi
               /\ ins' = w.ins
               /\ reply' = IF w.err # "OK" THEN ErrReply("opendir", "PANIC")
                           ELSE [OkReply("opendir") EXCEPT !.fh = list[ino].attr.ino]

\* Filesystem::unlink
Unlink(parent, name) ==
  /\ Running
  /\ UNCHANGED hi
  /\ IF find_by_name(list, parent, name) = {}
     THEN /\ reply' = ErrReply("unlink", "ENOENT")
          /\ UNCHANGED <<list, host, handles>>
          /\ ins' = NoIns
     ELSE \E i \in find_by_name(list, parent, name) :
            IF list[i].attr.kind # "file"
            THEN /\ reply' = ErrReply("unlink", "EISDIR")
                 /\ UNCHANGED <<list, host, handles>>
                 /\ ins' = NoIns
            ELSE LET ino == list[i].attr.ino
                     r == Remove(list, host, ino)
                 IN /\ ins' = [NoIns EXCEPT !.parent = parent, !.name = name]
                    /\ list' = r.list
                    /\ host' = Gc(r.list, r.host)
                    /\ handles' = MarkStaleAll(handles, DOMAIN list \ DOMAIN r.list)
                    /\ reply' = ErrReply("unlink", RemoveErr(list, host, ino))

\* the children of a directory: the inodes whose parent_id is its id
Children(l, ino) == {j \in DOMAIN l : l[j].parent_id = ino}

\* Filesystem::rmdir leaving out the emptiness check
RmdirChildrenUnchecked(l, ino) == {}

\* the children Filesystem::rmdir counts
RmdirChildren(l, ino) ==
  {j \in DOMAIN l : /\ l[j].parent_id = ino
                    /\ FileName(l[j].proxy_path) # None
                    /\ FileName(l[j].proxy_path) # "."}

\* Filesystem::rmdir
Rmdir(parent, name) ==
  /\ Running
  /\ UNCHANGED hi
  /\ IF find_by_name(list, parent, name) = {}
     THEN /\ reply' = ErrReply("rmdir", "ENOENT")
          /\ UNCHANGED <<list, host, handles>>
          /\ ins' = NoIns
     ELSE \E i \in find_by_name(list, parent, name) :
            IF list[i].attr.kind # "dir"
            THEN /\ reply' = ErrReply("rmdir", "ENOTDIR")
                 /\ UNCHANGED <<list, host, handles>>
                 /\ ins' = NoIns
            ELSE IF RmdirChildren(list, list[i].attr.ino) # {}
            THEN /\ reply' = ErrReply("rmdir", "ENOTEMPTY")
                 /\ UNCHANGED <<list, host, handles>>
                 /\ ins' = [NoIns EXCEPT !.kids = Children(list, list[i].attr.ino) # {}]
            ELSE LET ino == list[i].attr.ino
                     r == Remove(list, host, ino)
                 IN /\ ins' = [NoIns EXCEPT !.parent = parent, !.name = name,
                                            !.kids = Children(list, ino) # {}]
                    /\ list' = r.list
                    /\ host' = Gc(r.list, r.host)
                    /\ handles' = MarkStaleAll(handles, DOMAIN list \ DOMAIN r.list)
                    /\ reply' = ErrReply("rmdir", RemoveErr(list, host, ino))

\* Filesystem::rename
Rename(parent, name, newparent, newname) ==
  /\ Running
  /\ UNCHANGED <<handles, hi>>
  /\ IF find_by_id(list, newparent) = {}
     THEN /\ reply' = ErrReply("rename", "EINVAL")
          /\ UNCHANGED <<list, host>>
          /\ ins' = NoIns
     ELSE IF find_by_name(list, parent, name) = {}
     THEN /\ reply' = ErrReply("rename", "ENOENT")
          /\ UNCHANGED <<list, host>>
          /\ ins' = NoIns
     ELSE \E i \in find_by_name(list, parent, name) :
            LET err == RfsRenameErr(list, host, parent, name, newparent, newname, i)
            IN IF err # "OK"
               THEN /\ reply' = ErrReply("rename", err)
                    /\ UNCHANGED <<list, host>>
                    /\ ins' = NoIns
               ELSE LET r == RfsRename(list, host, newparent, newname, i)
                    IN /\ \A q \in DOMAIN r.host : Attached(q) => Depth(q) <= MaxDepth
                       /\ ins' = [NoIns EXCEPT !.parent = parent, !.name = name,
                                               !.newparent = newparent, !.newname = newname,
                                               !.id = i,
                                               !.before =
                                                 IF find_by_name(list, newparent, newname) = {}
                                                 THEN Graph(list) ELSE <<>>]
                       /\ list' = r.list
                       /\ host' = Gc(r.list, r.host)
                       /\ reply' = OkReply("rename")

\* Filesystem::open
Open(ino, acc) ==
  /\ Running
  /\ BagCardinality(handles) < MaxHandles
  /\ UNCHANGED <<host, hi>>
  /\ ins' = [NoIns EXCEPT !.hadslot = /\ acc # "O_ACCMODE"
                                      /\ ino \in DOMAIN list
                                      /\ list[ino].open_handles.some]
  /\ IF acc = "O_ACCMODE"
     THEN /\ reply' = ErrReply("open", "EINVAL")
          /\ UNCHANGED <<list, handles>>
     ELSE IF AllocateFhErr(list, host, ino, AccRead(acc), AccWrite(acc)) # "OK"
     THEN /\ reply' = ErrReply("open", AllocateFhErr(list, host, ino, AccRead(acc), AccWrite(acc)))
          /\ UNCHANGED <<list, handles>>
     ELSE LET l2 == AllocateFhList(list, ino, AccRead(acc), AccWrite(acc))
              fh == EncodeFh(l2[ino].open_handles.count, AccRead(acc), AccWrite(acc))
          IN /\ list' = l2
             /\ handles' = handles (+) SetToBag({Handle(ino, fh)})
             /\ reply' = [OkReply("open") EXCEPT !.fh = fh]

\* Filesystem::release, called by the kernel for a handle x it holds
Release(x) ==
  /\ Running
  /\ BagIn(x, handles)
  /\ handles' = handles (-) SetToBag({x})
  /\ UNCHANGED hi
  /\ ins' = NoIns
  /\ IF find_by_id(list, x.ino) = {}
     THEN /\ reply' = ErrReply("release", "ENOENT")
          /\ UNCHANGED <<list, host>>
     ELSE LET l2 == [list EXCEPT ![x.ino].open_handles =
                       IF ~@.some THEN @
                       ELSE IF Max(@.count - 1, 0) = 0 THEN NoOpen
                       ELSE [@ EXCEPT !.count = Max(@ - 1, 0)]]
          IN /\ list' = l2
             /\ host' = Gc(l2, host)
             /\ reply' = OkReply("release")

\* Filesystem::read
Read(ino, fh, offset, size) ==
  /\ Running
  /\ reply' = ReadReply(list, host, ino, fh, offset, size)
  /\ UNCHANGED <<list, host, handles, hi>>
  /\ ins' = [NoIns EXCEPT !.nobit = (ino \in DOMAIN list /\ ~fn_check_access_read(fh)),
                         !.noslot = /\ ino \in DOMAIN list
                                    /\ fn_check_access_read(fh)
                                    /\ ~list[ino].open_handles.some,
                         !.sized = IF /\ ino \in DOMAIN list
                                      /\ fn_check_access_read(fh)
                                      /\ list[ino].open_handles.rd
                                      /\ offset >= 0
                                   THEN Min(size, Max(0, list[ino].attr.size - offset))
                                   ELSE -1]

\* Filesystem::write, for data of any length
WriteCall(ino, fh, offset, data) ==
  /\ Running
  /\ UNCHANGED <<handles, hi>>
  /\ ins' = [NoIns EXCEPT !.nobit = (ino \in DOMAIN list /\ ~fn_check_access_write(fh)),
                         !.noslot = /\ ino \in DOMAIN list
                                    /\ fn_check_access_write(fh)
                                    /\ ~list[ino].open_handles.some]
  /\ IF WriteErr(list, host, ino, fh, offset) # "OK"
     THEN /\ reply' = ErrReply("write", WriteErr(list, host, ino, fh, offset))
          /\ UNCHANGED <<list, host>>
     ELSE LET p == list[ino].open_handles.path
          IN /\ host' = [host EXCEPT ![p].data = Overwrite(@, offset, data)]
             /\ list' = [list EXCEPT ![ino].attr = WriteAttr(@, offset, Len(data))]
             /\ reply' = [OkReply("write") EXCEPT !.written = Len(data)]

\* Filesystem::write, for writes that end within MaxLen bytes
Write(ino, fh, offset, data) ==
  /\ offset + Len(data) <= MaxLen
  /\ WriteCall(ino, fh, offset, data)

\* Filesystem::lookup
Lookup(parent, name) ==
  /\ Running
  /\ UNCHANGED <<list, host, handles, hi>>
  /\ ins' = NoIns
  /\ IF find_by_name(list, parent, name) = {}
     THEN reply' = ErrReply("lookup", "ENOENT")
     ELSE \E attr \in LookupSet(list, parent, name) :
            reply' = [OkReply("lookup") EXCEPT !.attr = attr]

Offsets == (0 - 1)..MaxLen

Sizes == 0..MaxLen

Next ==
  \/ \E parent \in KernelIds, name \in Names, mode \in Modes : Mkdir(parent, name, mode)
  \/ \E parent \in KernelIds, name \in Names, mode \in Modes, acc \in AccModes :
       Create(parent, name, mode, acc)
  \/ \E ino \in KernelIds : Opendir(ino)
  \/ \E parent \in KernelIds, name \in Names : Unlink(parent, name)
  \/ \E parent \in KernelIds, name \in Names : Rmdir(parent, name)
  \/ \E parent \in KernelIds, name \in Names, newparent \in KernelIds, newname \in Names :
       Rename(parent, name, newparent, newname)
  \/ \E parent \in KernelIds, name \in Names : Lookup(parent, name)
  \/ \E x \in BagToSet(handles) : Release(x)
  \/ \E ino \in KernelIds, acc \in AccModes : Open(ino, acc)
  \/ \E ino \in KernelIds, fh \in FhInputs(handles), offset \in Offsets, size \in Sizes :
       Read(ino, fh, offset, size)
  \/ \E ino \in KernelIds, fh \in FhInputs(handles), offset \in Offsets, data \in Datas :
       Write(ino, fh, offset, data)

Spec == Init /\ [][Next]_vars

(* ------------------- two writes sent together ------------------------- *)

\* the list and the origin after Filesystem::write ran as one step
SeqWrite(st, r) ==
  IF WriteErr(st.list, st.host, r.ino, r.fh, r.offset) # "OK" THEN st
  ELSE [list |-> [st.list EXCEPT ![r.ino].attr = WriteAttr(@, r.offset, Len(r.data))],
        host |-> [st.host EXCEPT ![st.list[r.ino].open_handles.path].data =
                                   Overwrite(@, r.offset, r.data)]]

Request(ino, fh, offset, data) ==
  [ino |-> ino, fh |-> fh, offset |-> offset, data |-> data, pc |-> "queued", err |-> "OK"]

\* the kernel sends two write requests for one inode, each with a handle it
\* holds for the inode
SubmitPair(ino, fh1, offset1, data1, fh2, offset2, data2) ==
  /\ calls = <<>>
  /\ reply.err # "PANIC"
  /\ BagIn(Handle(ino, fh1), handles)
  /\ BagIn(Handle(ino, fh2), handles)
  /\ offset1 + Len(data1) <= MaxOffset + MaxLen
  /\ offset2 + Len(data2) <= MaxOffset + MaxLen
  /\ calls' = <<Request(ino, fh1, offset1, data1), Request(ino, fh2, offset2, data2)>>
  /\ base' = [list |-> list, host |-> host]
  /\ UNCHANGED <<list, host, reply, handles, hi, ins, steps, pos, busy>>

\* a session that hands a request to the callback while another is inside it
Shared(c) == TRUE

\* fn write(&mut self, ..): the session calls the callback with the exclusive
\* borrow of the Rfs, so no other request is inside a callback
Exclusive(c) == busy = 0

\* the session dispatches request c to Filesystem::write
Dispatch(c) ==
  /\ c \in DOMAIN calls
  /\ calls[c].pc = "queued"
  /\ Exclusive(c)
  /\ busy' = c
  /\ calls' = [calls EXCEPT ![c].pc = "open"]
  /\ UNCHANGED <<list, host, reply, handles, hi, ins, steps, base, pos>>

\* request c ends with the reply err
Replied(c, err) ==
  /\ calls' = [calls EXCEPT ![c].pc = "done", ![c].err = err]
  /\ busy' = 0

\* Filesystem::write: find_by_id and open_file
WOpen(c) ==
  /\ c \in DOMAIN calls
  /\ calls[c].pc = "open"
  /\ LET r == calls[c]
     IN IF find_by_id(list, r.ino) = {} THEN Replied(c, "ENOENT")
        ELSE IF open_file(list[r.ino], r.fh, FALSE, TRUE) # "OK"
        THEN Replied(c, open_file(list[r.ino], r.fh, FALSE, TRUE))
        ELSE calls' = [calls EXCEPT ![c].pc = "meta"] /\ UNCHANGED busy
  /\ UNCHANGED <<list, host, reply, handles, hi, ins, steps, base, pos>>

\* Filesystem::write: offset > file.metadata().unwrap().len()
WMeta(c) ==
  /\ c \in DOMAIN calls
  /\ calls[c].pc = "meta"
  /\ LET r == calls[c]
     IN IF r.offset > Len(host[list[r.ino].open_handles.path].data)
        THEN Replied(c, "EINVAL")
        ELSE calls' = [calls EXCEPT ![c].pc = "seek"] /\ UNCHANGED busy
  /\ UNCHANGED <<list, host, reply, handles, hi, ins, steps, base, pos>>

\* Filesystem::write: file.seek(SeekFrom::Start(offset))
WSeek(c) ==
  /\ c \in DOMAIN calls
  /\ calls[c].pc = "seek"
  /\ LET r == calls[c]
     IN IF r.offset < 0 THEN Replied(c, "EINVAL") /\ UNCHANGED pos
        ELSE /\ pos' = r.offset
             /\ calls' = [calls EXCEPT ![c].pc = "write"]
             /\ UNCHANGED busy
  /\ UNCHANGED <<list, host, reply, handles, hi, ins, steps, base>>

\* Filesystem::write: file.write(data), at the offset of the descriptor
WWrite(c) ==
  /\ c \in DOMAIN calls
  /\ calls[c].pc = "write"
  /\ LET r == calls[c]
         fd == list[r.ino].open_handles
     IN IF ~fd.wr THEN Replied(c, "EBADF") /\ UNCHANGED <<host, pos>>
        ELSE /\ host' = [host EXCEPT ![fd.path].data = Overwrite(@, pos, r.data)]
             /\ pos' = pos + Len(r.data)
             /\ calls' = [calls EXCEPT ![c].pc = "attr"]
             /\ UNCHANGED busy
  /\ UNCHANGED <<list, reply, handles, hi, ins, steps, base>>

\* Filesystem::write: attr.size, reply.written
WAttr(c) ==
  /\ c \in DOMAIN calls
  /\ calls[c].pc = "attr"
  /\ LET r == calls[c]
     IN list' = [list EXCEPT ![r.ino].attr = WriteAttr(@, r.offset, Len(r.data))]
  /\ Replied(c, "OK")
  /\ UNCHANGED <<host, reply, handles, hi, ins, steps, base, pos>>

PairOffsets == 0..MaxOffset

\* the session with two write requests in flight: callbacks set a file up,
\* the kernel sends the two requests, the session serves them
NextWrites ==
  \/ /\ calls = <<>>
     /\ steps < MaxSetup
     /\ \E name \in Names, mode \in Modes, acc \in AccModes : Create(1, name, mode, acc)
  \/ /\ calls = <<>>
     /\ steps < MaxSetup
     /\ \E ino \in KernelIds, fh \in FhInputs(handles), offset \in Offsets, data \in Datas :
          Write(ino, fh, offset, data)
  \/ \E ino \in KernelIds, fh1 \in Fhs, fh2 \in Fhs, offset1 \in PairOffsets,
        offset2 \in PairOffsets, data1 \in Datas, data2 \in Datas :
       SubmitPair(ino, fh1, offset1, data1, fh2, offset2, data2)
  \/ \E c \in 1..2 : Dispatch(c)
  \/ \E c \in 1..2 : WOpen(c)
  \/ \E c \in 1..2 : WMeta(c)
  \/ \E c \in 1..2 : WSeek(c)
  \/ \E c \in 1..2 : WWrite(c)
  \/ \E c \in 1..2 : WAttr(c)

InitWrites == Init /\ host = EmptyHost

SpecWrites == InitWrites /\ [][NextWrites]_vars

(* ---------------- two callbacks sent together, with locks --------------- *)
(* calls holds two requests; each runs its callback step by step, a step    *)
(* being the code up to the next lock it takes.  Lock 0 is InodeList.list,  *)
(* lock i is the RwLock of inode i.                                         *)

ListLock == 0

\* a request for create, mkdir, rmdir, readdir or setattr: ino is the parent
\* or the inode it is called with, times the timestamps of a setattr; held
\* are the guards it holds; id, ppath,
\* path, todo and cur are the locals of the callback
OpRequest(op, ino, name, mode, acc, times) ==
  [op |-> op, ino |-> ino, name |-> name, mode |-> mode, acc |-> acc, times |-> times,
   pc |-> "queued", err |-> "OK",
   held |-> {}, id |-> 0, ppath |-> <<>>, path |-> <<>>, todo |-> {}, cur |-> 0]

\* the lock the next step of request r takes for writing: list.write() in
\* InodeList::insert and Rfs::remove, inode_lock.write() in allocate_fh and
\* setattr; -1 when it takes none
WantsWrite(r) ==
  IF r.pc \in {"insert", "remove"} THEN ListLock
  ELSE IF r.pc = "fh" THEN r.id
  ELSE IF r.pc = "lock" THEN r.ino
  ELSE 0 - 1

\* RwLock::write: granted when no guard of the lock is held
CanWrite(L, c) == \A d \in DOMAIN calls : \A m \in {"r", "w"} : <<L, m>> \notin calls[d].held

\* RwLock::read: granted when no other request holds the lock for writing and
\* no other request waits to write it; a read guard the thread holds itself
\* does not count
CanRead(L, c) ==
  \A d \in DOMAIN calls \ {c} :
    /\ <<L, "w">> \notin calls[d].held
    /\ ~(WantsWrite(calls[d]) = L /\ ~CanWrite(L, d))

\* find_by_name and iter_read take the read lock of every inode of the list
CanReadAll(c) == CanRead(ListLock, c) /\ \A i \in DOMAIN list : CanRead(i, c)

\* the kernel sends the two requests
SubmitOps(r1, r2) ==
  /\ calls = <<>>
  /\ reply.err # "PANIC"
  /\ calls' = <<r1, r2>>
  /\ base' = [list |-> list, host |-> host]
  /\ UNCHANGED <<list, host, reply, handles, hi, ins, steps, pos, busy>>

\* no callback of the session has panicked
Alive == \A d \in DOMAIN calls : calls[d].pc # "panicked"

\* request c is inside its callback at step pc
At(c, pc) == c \in DOMAIN calls /\ calls[c].pc = pc /\ Alive

\* the first step of each callback
FirstPc(op) ==
  IF op \in {"create", "mkdir"} THEN "find"
  ELSE IF op = "rmdir" THEN "resolve"
  ELSE IF op = "readdir" THEN "rfind"
  ELSE "sfind"

\* the session calls the callback of request c
OpDispatch(c) ==
  /\ At(c, "queued")
  /\ Exclusive(c)
  /\ busy' = c
  /\ calls' = [calls EXCEPT ![c].pc = FirstPc(calls[c].op)]
  /\ UNCHANGED <<list, host, reply, handles, hi, ins, steps, base, pos>>

\* request c ends with the reply err and drops its guards
OpReplied(c, err) ==
  /\ calls' = [calls EXCEPT ![c].pc = "done", ![c].err = err, ![c].held = {}]
  /\ busy' = 0

\* the callback of request c panics: the session thread ends
OpPanicked(c) ==
  /\ calls' = [calls EXCEPT ![c].pc = "panicked", ![c].err = "PANIC", ![c].held = {}]
  /\ UNCHANGED busy

KindOf(op) == IF op = "create" THEN "file" ELSE "dir"

\* Filesystem::create, mkdir: the access mode, then the first block of
\* Rfs::create under the read view
CFind(c) ==
  /\ At(c, "find")
  /\ LET r == calls[c]
     IN IF r.op = "create" /\ r.acc = "O_ACCMODE" THEN OpReplied(c, "EINVAL")
        ELSE /\ CanReadAll(c)
             /\ IF find_by_name(list, r.ino, r.name) # {} THEN OpReplied(c, "EEXIST")
                ELSE IF find_by_id(list, r.ino) = {} THEN OpReplied(c, "ENOENT")
                ELSE /\ calls' = [calls EXCEPT ![c].pc = "host",
                                               ![c].ppath = Join(list[r.ino].proxy_path, r.name),
                                               ![c].path = Join(list[r.ino].origin_path, r.name)]
                     /\ UNCHANGED busy
  /\ UNCHANGED <<list, host, reply, handles, hi, ins, steps, base, pos>>

\* Rfs::create: File::create or fs::create_dir
CHost(c) ==
  /\ At(c, "host")
  /\ LET r == calls[c]
         err == IF r.op = "create" THEN FileCreateErr(host, r.path) ELSE CreateDirErr(host, r.path)
     IN IF err # "OK" THEN OpReplied(c, err) /\ UNCHANGED host
        ELSE /\ host' = Gc(list, IF r.op = "create" THEN FileCreate(host, r.path)
                                 ELSE CreateDir(host, r.path))
             /\ calls' = [calls EXCEPT ![c].pc = "insert"]
             /\ UNCHANGED busy
  /\ UNCHANGED <<list, reply, handles, hi, ins, steps, base, pos>>

\* Rfs::create: inode_list.insert and the attributes it returns
CInsert(c) ==
  /\ At(c, "insert")
  /\ CanWrite(ListLock, c)
  /\ LET r == calls[c]
         id == InsertId(list)
         l2 == Insert(list, r.ppath, r.path, r.ino, Attr(KindOf(r.op), Perm(r.mode), 0))
     IN /\ list' = l2
        /\ host' = Gc(l2, host)
        /\ handles' = IF id \in DOMAIN list THEN MarkStale(handles, id) ELSE handles
        /\ hi' = Max(hi, id)
        /\ IF r.op = "mkdir" THEN OpReplied(c, "OK")
           ELSE calls' = [calls EXCEPT ![c].pc = "fh", ![c].id = l2[id].attr.ino] /\ UNCHANGED busy
  /\ UNCHANGED <<reply, ins, steps, base, pos>>

\* Filesystem::create: allocate_fh(attr.ino, read, write).unwrap()
CFh(c) ==
  /\ At(c, "fh")
  /\ LET r == calls[c]
     IN /\ CanRead(ListLock, c)
        /\ r.id \in DOMAIN list => CanWrite(r.id, c)
        /\ IF AllocateFhErr(list, host, r.id, AccRead(r.acc), AccWrite(r.acc)) # "OK"
           THEN OpPanicked(c) /\ UNCHANGED <<list, handles>>
           ELSE LET l2 == AllocateFhList(list, r.id, AccRead(r.acc), AccWrite(r.acc))
                    fh == EncodeFh(l2[r.id].open_handles.count, AccRead(r.acc), AccWrite(r.acc))
                IN /\ list' = l2
                   /\ handles' = handles (+) SetToBag({Handle(r.id, fh)})
                   /\ OpReplied(c, "OK")
  /\ UNCHANGED <<host, reply, hi, ins, steps, base, pos>>

\* Filesystem::rmdir: the block that resolves the name to an ino
DResolve(c) ==
  /\ At(c, "resolve")
  /\ CanReadAll(c)
  /\ LET r == calls[c]
     IN IF find_by_name(list, r.ino, r.name) = {} THEN OpReplied(c, "ENOENT")
        ELSE \E i \in find_by_name(list, r.ino, r.name) :
               IF list[i].attr.kind # "dir" THEN OpReplied(c, "ENOTDIR")
               ELSE /\ calls' = [calls EXCEPT ![c].pc = "count", ![c].id = list[i].attr.ino]
                    /\ UNCHANGED busy
  /\ UNCHANGED <<list, host, reply, handles, hi, ins, steps, base, pos>>

\* Filesystem::rmdir: the count of the children, under a read view of its own
DCount(c) ==
  /\ At(c, "count")
  /\ CanReadAll(c)
  /\ IF RmdirChildren(list, calls[c].id) # {} THEN OpReplied(c, "ENOTEMPTY")
     ELSE calls' = [calls EXCEPT ![c].pc = "remove"] /\ UNCHANGED busy
  /\ UNCHANGED <<list, host, reply, handles, hi, ins, steps, base, pos>>

\* Filesystem::rmdir: Rfs::remove(ino) under the write view
DRemove(c) ==
  /\ At(c, "remove")
  /\ CanWrite(ListLock, c)
  /\ LET id == calls[c].id
     IN IF id \notin DOMAIN list
        THEN OpReplied(c, "ENOENT") /\ UNCHANGED <<list, host, handles>>
        ELSE LET r == Remove(list, host, id)
             IN /\ list' = r.list
                /\ host' = Gc(r.list, r.host)
                /\ handles' = MarkStaleAll(handles, DOMAIN list \ DOMAIN r.list)
                /\ OpReplied(c, RemoveErr(list, host, id))
  /\ UNCHANGED <<reply, hi, ins, steps, base, pos>>

\* Filesystem::readdir: the read view and the read guard of the inode, both
\* held until the reply
RFind(c) ==
  /\ At(c, "rfind")
  /\ CanRead(ListLock, c)
  /\ LET r == calls[c]
     IN IF find_by_id(list, r.ino) = {} THEN OpReplied(c, "ENOENT")
        ELSE /\ CanRead(r.ino, c)
             /\ calls' = [calls EXCEPT ![c].pc = "iter", ![c].id = list[r.ino].attr.ino,
                                       ![c].held = {<<ListLock, "r">>, <<r.ino, "r">>},
                                       ![c].todo = DOMAIN list]
             /\ UNCHANGED busy
  /\ UNCHANGED <<list, host, reply, handles, hi, ins, steps, base, pos>>

\* Filesystem::readdir: iter_read moves on to the next entry of the map, in
\* the order the map yields them
RIter(c) ==
  /\ At(c, "iter")
  /\ IF calls[c].todo = {} THEN OpReplied(c, "OK")
     ELSE \E j \in calls[c].todo :
            calls' = [calls EXCEPT ![c].pc = "visit", ![c].cur = j] /\ UNCHANGED busy
  /\ UNCHANGED <<list, host, reply, handles, hi, ins, steps, base, pos>>

\* Filesystem::readdir: entry.read() of iter_read on the entry, the filter
\* and reply.add; the guard of the entry is dropped at the end of the turn
RVisit(c) ==
  /\ At(c, "visit")
  /\ CanRead(calls[c].cur, c)
  /\ calls' = [calls EXCEPT ![c].pc = "iter", ![c].todo = @ \ {calls[c].cur}, ![c].cur = 0]
  /\ UNCHANGED <<list, host, reply, handles, hi, ins, steps, base, pos, busy>>

None4 == <<None, None, None, None>>

\* TimeOrNow: SpecificTime(time) is time, Now is SystemTime::now()
TimeOrNowValue(t) == IF t = "Now" THEN "now" ELSE t

\* the attributes after Filesystem::setattr with the four Option timestamps
SetattrAttr(attr, atime, mtime, ctime, crtime) ==
  LET a1 == IF atime # None THEN [attr EXCEPT !.atime = TimeOrNowValue(atime)] ELSE attr
      a2 == IF mtime # None THEN [a1 EXCEPT !.mtime = TimeOrNowValue(mtime)] ELSE a1
      a3 == IF ctime # None THEN [a2 EXCEPT !.mtime = ctime] ELSE a2
  IN IF crtime # None THEN [a3 EXCEPT !.crtime = crtime] ELSE a3

\* Filesystem::setattr: the read view and find_by_id
SFind(c) ==
  /\ At(c, "sfind")
  /\ CanRead(ListLock, c)
  /\ IF find_by_id(list, calls[c].ino) = {} THEN OpReplied(c, "ENOENT")
     ELSE /\ calls' = [calls EXCEPT ![c].pc = "lock", ![c].held = {<<ListLock, "r">>}]
          /\ UNCHANGED busy
  /\ UNCHANGED <<list, host, reply, handles, hi, ins, steps, base, pos>>

\* Filesystem::setattr: inode_lock.write(), the timestamps and the reply
SLock(c) ==
  /\ At(c, "lock")
  /\ CanWrite(calls[c].ino, c)
  /\ LET r == calls[c]
     IN list' = [list EXCEPT ![r.ino].attr =
                   SetattrAttr(@, r.times[1], r.times[2], r.times[3], r.times[4])]
  /\ OpReplied(c, "OK")
  /\ UNCHANGED <<host, reply, handles, hi, ins, steps, base, pos>>

\* create with each access mode, and mkdir
CreateKinds == {<<"mkdir", "O_RDONLY">>} \cup {<<"create", acc>> : acc \in AccModes}

CreateRequest(k, parent, name, mode) == OpRequest(k[1], parent, name, mode, k[2], None4)

\* the timestamps of the setattr sent together with a readdir
PairTimes == {<<"t1", None, None, None>>, <<None, "Now", "t1", None>>}

\* a step of a request the session has been sent
Serve ==
  \E c \in 1..2 :
    \/ OpDispatch(c)
    \/ CFind(c) \/ CHost(c) \/ CInsert(c) \/ CFh(c)
    \/ DResolve(c) \/ DCount(c) \/ DRemove(c)
    \/ RFind(c) \/ RIter(c) \/ RVisit(c)
    \/ SFind(c) \/ SLock(c)

\* the session with two requests in flight: callbacks build a tree, the
\* kernel sends two requests, the session serves them
NextOps ==
  \/ /\ calls = <<>>
     /\ steps < MaxSetup
     /\ \E parent \in KernelIds, name \in Names, mode \in Modes : Mkdir(parent, name, mode)
  \/ /\ calls = <<>>
     /\ steps < MaxSetup
     /\ \E ino \in KernelIds : Opendir(ino)
  \/ /\ calls = <<>>
     /\ steps < MaxSetup
     /\ \E parent \in KernelIds, name \in Names : Unlink(parent, name)
  \/ /\ InsertId(list) <= MaxInodes
     /\ \E parent \in KernelIds, name \in Names, mode \in Modes, k1 \in CreateKinds, k2 \in CreateKinds :
       SubmitOps(CreateRequest(k1, parent, name, mode), CreateRequest(k2, parent, name, mode))
  \/ /\ InsertId(list) <= MaxInodes
     /\ \E parent \in KernelIds, name \in Names, ino \in KernelIds, f \in Names, mode \in Modes,
        k \in CreateKinds :
       SubmitOps(OpRequest("rmdir", parent, name, 0, "O_RDONLY", None4),
                 CreateRequest(k, ino, f, mode))
  \/ \E ino \in KernelIds, ino2 \in KernelIds, times \in PairTimes :
       SubmitOps(OpRequest("readdir", ino, "", 0, "O_RDONLY", None4),
                 OpRequest("setattr", ino2, "", 0, "O_RDONLY", times))
  \/ \E c \in 1..2 : OpDispatch(c)
  \/ \E c \in 1..2 : CFind(c)
  \/ \E c \in 1..2 : CHost(c)
  \/ \E c \in 1..2 : CInsert(c)
  \/ \E c \in 1..2 : CFh(c)
  \/ \E c \in 1..2 : DResolve(c)
  \/ \E c \in 1..2 : DCount(c)
  \/ \E c \in 1..2 : DRemove(c)
  \/ \E c \in 1..2 : RFind(c)
  \/ \E c \in 1..2 : RIter(c)
  \/ \E c \in 1..2 : RVisit(c)
  \/ \E c \in 1..2 : SFind(c)
  \/ \E c \in 1..2 : SLock(c)

SpecOps == Init /\ [][NextOps]_vars

\* the same session after mkdir calls only
NextLive ==
  \/ /\ calls = <<>>
     /\ steps < MaxLive
     /\ \E parent \in KernelIds, name \in Names, mode \in Modes : Mkdir(parent, name, mode)
  \/ /\ InsertId(list) <= MaxInodes
     /\ \E parent \in KernelIds, name \in Names, mode \in Modes, k1 \in CreateKinds, k2 \in CreateKinds :
       SubmitOps(CreateRequest(k1, parent, name, mode), CreateRequest(k2, parent, name, mode))
  \/ /\ InsertId(list) <= MaxInodes
     /\ \E parent \in KernelIds, name \in Names, ino \in KernelIds, f \in Names, mode \in Modes,
        k \in CreateKinds :
       SubmitOps(OpRequest("rmdir", parent, name, 0, "O_RDONLY", None4),
                 CreateRequest(k, ino, f, mode))
  \/ \E ino \in KernelIds, ino2 \in KernelIds, times \in PairTimes :
       SubmitOps(OpRequest("readdir", ino, "", 0, "O_RDONLY", None4),
                 OpRequest("setattr", ino2, "", 0, "O_RDONLY", times))
  \/ Serve

\* the session thread runs the callback of a request it was sent to its end
\* and then takes the next request
SpecLive == Init /\ [][NextLive]_vars /\ WF_vars(Serve)

(* ------------------------- Filesystem::setattr -------------------------- *)

\* Option<TimeOrNow>: None, TimeOrNow::Now, or a specific time
TimeOrNows == {None, "Now", "t1"}

\* Option<SystemTime>: None or a specific time
SystemTimes == {None, "t1"}

\* Filesystem::setattr
Setattr(ino, atime, mtime, ctime, crtime) ==
  /\ Running
  /\ UNCHANGED <<host, handles, hi>>
  /\ ins' = NoIns
  /\ IF find_by_id(list, ino) = {}
     THEN /\ reply' = ErrReply("setattr", "ENOENT")
          /\ UNCHANGED list
     ELSE /\ list' = [list EXCEPT ![ino].attr = SetattrAttr(@, atime, mtime, ctime, crtime)]
          /\ reply' = [OkReply("setattr") EXCEPT
                         !.attr = SetattrAttr(list[ino].attr, atime, mtime, ctime, crtime)]

\* the callbacks that make inodes and write files, and setattr
NextAttr ==
  \/ /\ steps < MaxSetup
     /\ \E parent \in KernelIds, name \in Names, mode \in Modes : Mkdir(parent, name, mode)
  \/ /\ steps < MaxSetup
     /\ \E parent \in KernelIds, name \in Names, mode \in Modes, acc \in AccModes :
          Create(parent, name, mode, acc)
  \/ /\ steps < MaxSetup
     /\ \E ino \in KernelIds : Opendir(ino)
  \/ /\ steps < MaxAttrSteps
     /\ \E ino \in KernelIds, fh \in FhInputs(handles), offset \in Offsets, data \in Datas :
          Write(ino, fh, offset, data)
  \/ /\ steps < MaxAttrSteps
     /\ \E ino \in KernelIds, atime \in TimeOrNows, mtime \in TimeOrNows,
           ctime \in SystemTimes, crtime \in SystemTimes :
          Setattr(ino, atime, mtime, ctime, crtime)

SpecAttr == Init /\ [][NextAttr]_vars

(* --------------------- writes of several lengths ----------------------- *)

SizeOffsets == (0 - 1)..MaxEnd

\* the data of a write: no byte, or up to MaxEnd bytes
SizeDatas == UNION {[1..n -> {1}] : n \in 0..MaxEnd}

\* create and open give the handles, then writes at every offset
NextSizes ==
  \/ /\ steps < MaxSetup
     /\ \E name \in Names, mode \in Modes, acc \in AccModes : Create(1, name, mode, acc)
  \/ /\ steps < MaxSetup
     /\ \E ino \in KernelIds, acc \in AccModes : Open(ino, acc)
  \/ /\ steps < MaxSizeSteps
     /\ \E ino \in KernelIds, fh \in FhInputs(handles), offset \in SizeOffsets,
           data \in SizeDatas :
          /\ offset + Len(data) <= MaxEnd
          /\ WriteCall(ino, fh, offset, data)

SpecSizes == Init /\ [][NextSizes]_vars

(* ------------- getattr, readdir, access: read-only callbacks ----------- *)

\* Filesystem::getattr updating atime
GetattrTouch(ino) ==
  /\ Running
  /\ UNCHANGED <<host, handles, hi>>
  /\ ins' = NoIns
  /\ IF find_by_id(list, ino) = {}
     THEN reply' = ErrReply("getattr", "ENOENT") /\ UNCHANGED list
     ELSE /\ list' = [list EXCEPT ![ino].attr.atime = "now"]
          /\ reply' = [OkReply("getattr") EXCEPT !.attr = list'[ino].attr]

\* Filesystem::getattr
Getattr(ino) ==
  /\ Running
  /\ UNCHANGED <<list, host, handles, hi>>
  /\ ins' = NoIns
  /\ IF find_by_id(list, ino) = {}
     THEN reply' = ErrReply("getattr", "ENOENT")
     ELSE reply' = [OkReply("getattr") EXCEPT !.attr = list[ino].attr]

\* skip(offset as usize): a negative offset wraps to a count beyond every list
Skip(seq, offset) ==
  IF offset < 0 \/ offset >= Len(seq) THEN <<>> ELSE SubSeq(seq, offset + 1, Len(seq))

\* Filesystem::readdir, with a reply buffer that takes every entry: the reply
\* is the ids of the entries it adds, in the order it adds them, which is
\* the order of iter_read over the HashMap, any order
Readdir(ino, offset) ==
  /\ Running
  /\ UNCHANGED <<list, host, handles, hi>>
  /\ ins' = NoIns
  /\ IF find_by_id(list, ino) = {}
     THEN reply' = ErrReply("readdir", "ENOENT")
     ELSE \E f \in Orders(Children(list, list[ino].attr.ino)) :
            reply' = [OkReply("readdir") EXCEPT
                        !.data = Skip([k \in DOMAIN f |-> list[f[k]].attr.ino], offset)]

\* Filesystem::access
Access(ino) ==
  /\ Running
  /\ UNCHANGED <<list, host, handles, hi>>
  /\ ins' = NoIns
  /\ IF find_by_id(list, ino) = {}
     THEN reply' = ErrReply("access", "ENOENT")
     ELSE reply' = OkReply("access")

ReaddirOffsets == (0 - 1)..2

\* callbacks that fill the list and the files, then the callbacks that only
\* read them
NextReads ==
  \/ /\ steps < MaxSetup
     /\ \E parent \in KernelIds, name \in Names, mode \in Modes, acc \in AccModes :
          Create(parent, name, mode, acc)
  \/ /\ steps < MaxSetup
     /\ \E ino \in KernelIds : Opendir(ino)
  \/ /\ steps < MaxSetup
     /\ \E ino \in KernelIds, fh \in FhInputs(handles), offset \in Offsets, data \in Datas :
          Write(ino, fh, offset, data)
  \/ /\ steps < MaxReadSteps
     /\ \E parent \in KernelIds, name \in Names : Lookup(parent, name)
  \/ /\ steps < MaxReadSteps
     /\ \E ino \in KernelIds : Getattr(ino)
  \/ /\ steps < MaxReadSteps
     /\ \E ino \in KernelIds, fh \in FhInputs(handles), offset \in Offsets, size \in Sizes :
          Read(ino, fh, offset, size)
  \/ /\ steps < MaxReadSteps
     /\ \E ino \in KernelIds, offset \in ReaddirOffsets : Readdir(ino, offset)
  \/ /\ steps < MaxReadSteps
     /\ \E ino \in KernelIds : Access(ino)

SpecReads == Init /\ [][NextReads]_vars

(* ------------------------ create, open, release ------------------------ *)

\* the callbacks that give and take back handles
NextHandles ==
  \/ /\ steps < MaxHandleSteps
     /\ \E parent \in KernelIds, name \in Names, mode \in Modes, acc \in AccModes :
          Create(parent, name, mode, acc)
  \/ /\ steps < MaxHandleSteps
     /\ \E ino \in KernelIds, acc \in AccModes : Open(ino, acc)
  \/ /\ steps < MaxHandleSteps
     /\ \E x \in BagToSet(handles) : Release(x)

SpecHandles == Init /\ [][NextHandles]_vars

(* ------------------------------ claims --------------------------------- *)

\* C1: every id insert hands out was never handed out before, and no insert
\* overwrites an inode that is in the list.
C1_FreshIds == ~ins.reused /\ ~ins.replaced

\* the children of a directory that have a file name
Named(l, parent) == {i \in DOMAIN l : l[i].parent_id = parent /\ FileName(l[i].proxy_path) # None}

\* C2: no directory has two children whose proxy_path file names are equal.
C2_UniqueSiblings ==
  \A i \in DOMAIN list : \A j \in Named(list, list[i].parent_id) :
    (FileName(list[i].proxy_path) = FileName(list[j].proxy_path)) => i = j

\* C3: an opendir that directly follows a successful opendir of the same
\* directory leaves the inode list as it is.
C3_IngestIdempotent ==
  [][\A ino \in KernelIds :
       (reply.op = "opendir" /\ reply.err = "OK" /\ reply.fh = ino /\ Opendir(ino))
         => list' = list]_vars

\* C4: after a successful opendir(d), an infected entry of d's origin
\* directory is no child of d, and a clean or whitelisted entry is one.
C4_IngestVerdicts ==
  [][\A ino \in KernelIds :
       (reply'.op = "opendir" /\ reply'.err = "OK" /\ Opendir(ino))
         => \A p \in Entries(host, list[ino].origin_path) :
              IF Scan(host, p) = "infected"
              THEN find_by_name(list', ino, FileName(p)) = {}
              ELSE find_by_name(list', ino, FileName(p)) # {}]_vars

\* the name is taken under parent: by a child in the list or by an entry of
\* the parent's origin directory
Taken(l, h, parent, name) ==
  /\ parent \in DOMAIN l
  /\ \/ find_by_name(l, parent, name) # {}
     \/ Exists(h, Join(l[parent].origin_path, name))

\* C5: create and mkdir of a name that is taken in the list or in the origin
\* fail with file_exists and change neither the list nor the origin.
C5_ExistingNameRefused ==
  [][\A parent \in KernelIds, name \in Names :
       (/\ reply'.op \in {"create", "mkdir"}
        /\ Taken(list, host, parent, name)
        /\ \/ \E mode \in Modes : Mkdir(parent, name, mode)
           \/ \E mode \in Modes, acc \in AccModes \ {"O_ACCMODE"} : Create(parent, name, mode, acc))
         => (reply'.err = "EEXIST" /\ list' = list /\ host' = host)]_vars

\* C6: a read on an inode of the list with a handle without the read bit, and
\* a write with a handle without the write bit, reply op_not_permitted and
\* leave the list and the origin as they are, whatever the open slot holds;
\* and a handle open returns for O_RDONLY has no write bit.
C6_AccessBitsGate ==
  [][/\ (reply'.op \in {"read", "write"} /\ ins'.nobit)
          => (reply'.err = "EPERM" /\ list' = list /\ host' = host)
     /\ \A ino \in KernelIds :
          (reply'.op = "open" /\ reply'.err = "OK" /\ Open(ino, "O_RDONLY"))
            => ~fn_check_access_write(reply'.fh)]_vars

\* a write was refused for its handle on an inode whose descriptor is open
\* for writing
C6_Witness ==
  /\ reply.op = "write"
  /\ reply.err = "EPERM"
  /\ ins.nobit
  /\ \E i \in DOMAIN list : list[i].open_handles.some /\ list[i].open_handles.wr

\* the handles the kernel holds for the inode that now has id i
Live(i) == BagCardinality(Restrict(handles, {x \in DOMAIN handles : x.ino = i /\ ~x.stale}))

\* C7: an inode with an open slot has a count of at least 1, and the count is
\* the number of handles returned for the inode and not yet released.
C7_CountIsLiveHandles ==
  \A i \in DOMAIN list :
    list[i].open_handles.some =>
      (list[i].open_handles.count >= 1 /\ list[i].open_handles.count = Live(i))

\* C8: as long as the kernel holds a handle of an inode, the inode's
\* descriptor is open.
C8_DescriptorOutlivesHandles ==
  \A x \in BagToSet(handles) :
    /\ ~x.stale
    /\ x.ino \in DOMAIN list
    /\ list[x.ino].open_handles.some

\* C9: after a successful write with a handle of the inode that has both
\* access bits, a read of the same range with that handle replies the bytes
\* written.
C9_ReadBackWritten ==
  [][\A ino \in KernelIds, fh \in Fhs, offset \in Offsets, data \in Datas :
       (/\ reply'.op = "write"
        /\ reply'.err = "OK"
        /\ BagIn(Handle(ino, fh), handles)
        /\ fn_check_access_read(fh)
        /\ fn_check_access_write(fh)
        /\ Write(ino, fh, offset, data))
         => ReadReply(list', host', ino, fh, offset, Len(data))
              = [OkReply("read") EXCEPT !.data = data]]_vars

\* C10: after a successful create or mkdir, lookup(parent, name) can only
\* reply the attributes the create or mkdir replied.
C10_LookupAfterCreate ==
  (reply.op \in {"create", "mkdir"} /\ reply.err = "OK")
    => LookupSet(list, ins.parent, ins.name) = {reply.attr}

\* a create succeeded, and it overwrote an inode of the list
C10_Witness ==
  /\ reply.op = "create"
  /\ reply.err = "OK"
  /\ ins.replaced

\* C11: after an unlink or rmdir that replied success, no inode of the list
\* is found under the parent and name it was called with, so lookup fails
\* with no_such_entry.
C11_LookupAfterRemove ==
  (reply.op \in {"unlink", "rmdir"} /\ reply.err = "OK")
    => find_by_name(list, ins.parent, ins.name) = {}

\* C12: an rmdir that resolves a directory with a child in the list replies
\* directory_not_empty and changes neither the list nor the origin.
C12_RmdirNeedsEmpty ==
  [][(reply'.op = "rmdir" /\ ins'.kids)
       => (reply'.err = "ENOTEMPTY" /\ list' = list /\ host' = host)]_vars

\* an rmdir was refused for a directory that has a child in the list
C12_Witness ==
  /\ reply.op = "rmdir"
  /\ reply.err = "ENOTEMPTY"
  /\ ins.kids

\* C13: after a rename that replied success and whose destination is not its
\* source, no inode is found under the old parent and name, and the only
\* inode found under the new parent and name is the moved one, under the id
\* it had before, with the new parent as its parent.
C13_RenameMoves ==
  (/\ reply.op = "rename"
   /\ reply.err = "OK"
   /\ <<ins.parent, ins.name>> # <<ins.newparent, ins.newname>>)
    => /\ find_by_name(list, ins.parent, ins.name) = {}
       /\ find_by_name(list, ins.newparent, ins.newname) = {ins.id}
       /\ list[ins.id].attr.ino = ins.id
       /\ list[ins.id].parent_id = ins.newparent

\* C14: when a rename succeeded on a destination that had no inode in the
\* list, the rename back, called next, succeeds and leaves every inode with
\* the id, parent, proxy_path and origin_path it had before the first rename.
C14_RenameRoundTrip ==
  [][(/\ reply.op = "rename"
      /\ reply.err = "OK"
      /\ ins.before # <<>>
      /\ reply'.op = "rename"
      /\ Rename(ins.newparent, ins.newname, ins.parent, ins.name))
       => (reply'.err = "OK" /\ Graph(list') = ins.before)]_vars

\* the two placeholders init puts under the root
Synthetic(node) == node.proxy_path \in {<<".">>, <<"..">>}

\* C15: every inode other than the placeholders "." and ".." has a
\* proxy_path under the proxy root, and its origin_path is the origin root
\* joined with the proxy_path stripped of the proxy root.
C15_PathsAgree ==
  \A i \in DOMAIN list :
    ~Synthetic(list[i]) =>
      /\ CanStrip(list[i].proxy_path, ProxyRoot)
      /\ list[i].origin_path = proxy_path_to_origin_path(list[i].proxy_path)

\* a directory with a child in the list was renamed
C15_Witness ==
  /\ reply.op = "rename"
  /\ reply.err = "OK"
  /\ Children(list, ins.id) # {}
  /\ <<ins.parent, ins.name>> # <<ins.newparent, ins.newname>>

\* C16: every inode of the list has attr.ino equal to the id it is stored
\* under.
C16_InoIsId == \A i \in DOMAIN list : list[i].attr.ino = i

\* an insert overwrote an inode of the list
C16_Witness == ins.replaced /\ reply.op = "mkdir"

\* C17: the list holds the root under id 1, with the proxy root as its
\* proxy_path and the origin root as its origin_path.
C17_RootStays ==
  /\ 1 \in DOMAIN list
  /\ list[1].proxy_path = ProxyRoot
  /\ list[1].origin_path = OriginRoot
  /\ list[1].attr.ino = 1

\* a removal took place after which an insert reused an id
C17_Witness == ins.reused /\ reply.op = "create" /\ reply.err = "OK"

\* C18: no callback panics: every callback ends with a reply.
C18_NoPanic == reply.err # "PANIC"

\* C19: release replies success in every state and for every handle.
C19_ReleaseSucceeds == reply.op = "release" => reply.err = "OK"

\* both requests were replied to
BothDone == calls # <<>> /\ \A c \in DOMAIN calls : calls[c].pc = "done"

CreateAloneOk(r) ==
  /\ r.op \in {"create", "mkdir"}
  /\ r.op = "create" => r.acc # "O_ACCMODE"
  /\ RfsCreateErr(base.list, base.host, r.name, r.ino, KindOf(r.op)) = "OK"

RmdirCreatePair ==
  /\ calls # <<>>
  /\ calls[1].op = "rmdir"
  /\ find_by_name(base.list, calls[1].ino, calls[1].name) = {calls[2].ino}
  /\ base.list[calls[2].ino].attr.kind = "dir"
  /\ RmdirChildren(base.list, base.list[calls[2].ino].attr.ino) = {}
  /\ RemoveErr(base.list, base.host, base.list[calls[2].ino].attr.ino) = "OK"
  /\ CreateAloneOk(calls[2])

\* C22: when rmdir(parent, d) and create(d, f) are in flight together, either
\* the rmdir replies directory_not_empty, the create success and f is in the
\* list, or the rmdir replies success and the create fails.
C22_RmdirCreateAtomic ==
  (BothDone /\ RmdirCreatePair)
    => \/ /\ calls[1].err = "ENOTEMPTY"
          /\ calls[2].err = "OK"
          /\ find_by_name(list, calls[2].ino, calls[2].name) # {}
       \/ /\ calls[1].err = "OK"
          /\ calls[2].err # "OK"

\* request c is inside its callback
Started(c) == calls # <<>> /\ calls[c].pc \notin {"queued", "done"}

\* request c was replied to
Done(c) == calls # <<>> /\ calls[c].pc = "done"

C24_HandleStaysWithFile ==
  [][\A x \in BagToSet(handles), offset \in Offsets :
       (/\ x.stale
        /\ ~BagIn(Handle(x.ino, x.fh), handles)
        /\ \/ \E size \in Sizes : Read(x.ino, x.fh, offset, size)
           \/ \E data \in Datas : Write(x.ino, x.fh, offset, data))
         => (reply'.data = <<>> /\ host' = host)]_vars

\* C25: after an unlink or rmdir that went on to Rfs::remove and replied an
\* error, the inode is still found under the parent and name it was called
\* with.
C25_HostFailureKeepsInode ==
  (reply.op \in {"unlink", "rmdir"} /\ reply.err # "OK" /\ ins.parent # 0)
    => find_by_name(list, ins.parent, ins.name) # {}

\* C26: the parent_id of every inode other than the root is the id of an
\* inode of the list whose kind is directory.
C26_ParentIsDirectory ==
  \A i \in DOMAIN list \ {1} :
    /\ list[i].parent_id \in DOMAIN list
    /\ list[list[i].parent_id].attr.kind = "dir"

\* C27: a read or write on an inode whose open slot is none, with a handle
\* that has the access bit the callback checks, replies EBADF and changes
\* neither the list nor the host files.
C27_NoSlotBadFd ==
  [][(reply'.op \in {"read", "write"} /\ ins'.noslot)
       => (reply'.err = "EBADF" /\ list' = list /\ host' = host)]_vars

C27_Witness ==
  /\ reply.op = "write"
  /\ ins.noslot
  /\ reply.err = "EBADF"

\* C28: an open with a valid access mode on an inode whose open slot is
\* present replies a handle, and the only change is that slot's count, one
\* higher: the descriptor, its access mode and the host files stay.
C28_OpenReusesDescriptor ==
  [][(reply'.op = "open" /\ ins'.hadslot)
       => /\ reply'.err = "OK"
          /\ host' = host
          /\ \E i \in DOMAIN list :
               /\ list[i].open_handles.some
               /\ list' = [list EXCEPT ![i].open_handles.count = @ + 1]
               /\ reply'.fh \div 4 = list'[i].open_handles.count]_vars

C28_Witness ==
  /\ reply.op = "open"
  /\ ins.hadslot
  /\ fn_check_access_write(reply.fh)
  /\ \E i \in DOMAIN list :
       /\ list[i].open_handles.some
       /\ ~list[i].open_handles.wr
       /\ list[i].open_handles.count = reply.fh \div 4
       /\ list[i].open_handles.count >= 2

\* C29: a setattr on an inode of the list sets each supplied timestamp to
\* the supplied value (Now is the current time), a supplied ctime going to
\* attr.ctime, leaves the other timestamps and attributes and every other
\* inode as they were, and replies the attributes after the update.
C29_SetattrSetsSupplied ==
  [][\A ino \in DOMAIN list, atime \in TimeOrNows, mtime \in TimeOrNows,
        ctime \in SystemTimes, crtime \in SystemTimes :
       Setattr(ino, atime, mtime, ctime, crtime)
         => LET old == list[ino].attr
                new == [old EXCEPT
                          !.atime = IF atime # None THEN TimeOrNowValue(atime) ELSE @,
                          !.mtime = IF mtime # None THEN TimeOrNowValue(mtime) ELSE @,
                          !.ctime = IF ctime # None THEN ctime ELSE @,
                          !.crtime = IF crtime # None THEN crtime ELSE @]
            IN /\ list' = [list EXCEPT ![ino].attr = new]
               /\ reply'.err = "OK"
               /\ reply'.attr = new]_vars

\* C30: a read at an offset that is not negative, with a handle that has the
\* read bit, on an inode whose descriptor is open for reading, replies
\* exactly min(size, max(0, attr.size - offset)) bytes, attr.size being the
\* size in the inode's attributes.
C30_ReadAmountFromAttrSize ==
  (reply.op = "read" /\ ins.sized >= 0)
    => (reply.err = "OK" /\ Len(reply.data) = ins.sized)

\* C31: a write with a handle that has the write bit, on an inode whose open
\* slot is present, replies EINVAL and changes neither the list nor the host
\* files when the offset is greater than the length of the origin file; any
\* other such write that replies success leaves attr.size at the larger of
\* the size before and offset + |data|; no write makes an attr.size smaller.
C31_WriteSize ==
  [][\A ino \in DOMAIN list, fh \in FhInputs(handles), offset \in SizeOffsets,
        data \in SizeDatas :
       (/\ WriteCall(ino, fh, offset, data)
        /\ fn_check_access_write(fh)
        /\ list[ino].open_handles.some)
         => /\ IF offset > Len(host[list[ino].open_handles.path].data)
               THEN reply'.err = "EINVAL" /\ list' = list /\ host' = host
               ELSE reply'.err = "OK"
                      => list'[ino].attr.size = Max(list[ino].attr.size, offset + Len(data))
            /\ \A i \in DOMAIN list :
                 i \in DOMAIN list' /\ list'[i].attr.size >= list[i].attr.size]_vars

\* a write of no byte has replied success in a state whose only file holds
\* two bytes
C31_Witness ==
  /\ reply.op = "write"
  /\ reply.err = "OK"
  /\ reply.written = 0
  /\ \E i \in DOMAIN list : list[i].attr.size = 2 /\ list[i].open_handles.wr
  /\ Cardinality({i \in DOMAIN list : list[i].attr.kind = "file"}) = 1

\* C32: a lookup, getattr, read, readdir or access, whatever it replies,
\* leaves the inode list (every inode's id, parent, paths, attributes with
\* atime, and open slot) and the host files as they were.
C32_ReadOnlyCallbacks ==
  [][reply'.op \in {"lookup", "getattr", "read", "readdir", "access"}
       => (list' = list /\ host' = host)]_vars

\* a getattr has replied the attributes of a file that was written
C32_Witness ==
  /\ reply.op = "getattr"
  /\ reply.err = "OK"
  /\ reply.attr.kind = "file"
  /\ reply.attr.size > 0

\* C33: an open or create whose access mode is none of read-only, write-only
\* and read-write replies EINVAL and leaves the list as it was; the handle of
\* an open or create that replies success has, above its two low bits, the
\* open count of the inode right after the call, bit 0 set exactly when read
\* was asked for and bit 1 set exactly when write was asked for.
C33_HandleEncoding ==
  [][/\ \A ino \in KernelIds, acc \in AccModes :
          Open(ino, acc)
            => IF acc \notin {"O_RDONLY", "O_WRONLY", "O_RDWR"}
               THEN reply'.err = "EINVAL" /\ list' = list
               ELSE reply'.err = "OK"
                      => /\ reply'.fh \div 4 = list'[ino].open_handles.count
                         /\ (reply'.fh % 2 = 1) <=> (acc \in {"O_RDONLY", "O_RDWR"})
                         /\ ((reply'.fh \div 2) % 2 = 1) <=> (acc \in {"O_WRONLY", "O_RDWR"})
     /\ \A parent \in KernelIds, name \in Names, mode \in Modes, acc \in AccModes :
          Create(parent, name, mode, acc)
            => IF acc \notin {"O_RDONLY", "O_WRONLY", "O_RDWR"}
               THEN reply'.err = "EINVAL" /\ list' = list
               ELSE reply'.err = "OK"
                      => /\ reply'.fh \div 4 = list'[reply'.attr.ino].open_handles.count
                         /\ (reply'.fh % 2 = 1) <=> (acc \in {"O_RDONLY", "O_RDWR"})
                         /\ ((reply'.fh \div 2) % 2 = 1) <=> (acc \in {"O_WRONLY", "O_RDWR"})]_vars

\* an open for writing only has replied the second handle of an inode
C33_Witness ==
  /\ reply.op = "open"
  /\ reply.err = "OK"
  /\ reply.fh = 10
  /\ \E i \in DOMAIN list : list[i].open_handles.count = 2

====
